---- MODULE Spec2Model ----
(***************************************************************************)
(* Two quantum-circuit encodings of the 4-Queens problem:                  *)
(*   direct_csp : W-state rows + column / diagonal ancilla networks,       *)
(*                measurement, bitstring decoding and validity filter;     *)
(*   sat-grover : boolean formula -> phase oracle, Grover loop builder,    *)
(*                iteration-count formula, classical validator.            *)
(* One behaviour is one run of one entry point of the repository.          *)
(***************************************************************************)
EXTENDS Integers, Sequences, FiniteSets, TLC

VARIABLES
    pc,             \* position of the running entry point
    qc,             \* gate program of the circuit built so far
    num_clbits,     \* size of the classical register of qc
    num_ancillas,   \* ancilla count reported by the oracle (sat-grover)
    num_iterations, \* Grover iterations emitted (sat-grover), -1 when unset
    qstate,         \* per-qubit state after the gates of one shot
    bitstring,      \* one key of the counts histogram (sequence of characters)
    board_bits, col_bits, diag_bits,   \* result of split_bitstring
    in_valid_counts,\* whether the entry was put into valid_counts
    bits,           \* an 8-bit assignment, LSB first
    phase,          \* phase applied by the oracle to the basis state `bits`
    is_valid,       \* result of is_valid_assignment(bits)
    valid_patterns, \* result of generate_valid_patterns()
    cols,           \* result of decode_assignment(bits)
    call_args,      \* <<num_qubits, num_solutions>> of optimal_grover_iterations
    k_result,       \* result of optimal_grover_iterations, -1 when none
    error,          \* exception raised by the running entry point, or "none"
    counts,         \* a whole counts histogram: sequence of [key, cnt] entries
    valid_counts,   \* entries kept by the filter loop of analyze_direct_csp
    valid_shots,    \* sum(valid_counts.values())
    amp_in,         \* amplitudes of the data register before apply_diffuser
    amp_out         \* amplitudes after the gates of apply_diffuser

vars == <<pc, qc, num_clbits, num_ancillas, num_iterations, qstate,
          bitstring, board_bits, col_bits, diag_bits, in_valid_counts, bits,
          phase, is_valid, valid_patterns, cols, call_args, k_result, error,
          counts, valid_counts, valid_shots, amp_in, amp_out>>

\* state of the whole-histogram analysis and of the diffuser run
batch_vars == <<counts, valid_counts, valid_shots>>
diffuser_vars == <<amp_in, amp_out>>

-----------------------------------------------------------------------------
(* Python helpers *)

Abs(x) == IF x < 0 THEN -x ELSE x

\* list(range(a, b))
Range(a, b) == [i \in 1..(IF b > a THEN b - a ELSE 0) |-> a + i - 1]

\* (x >> i) & 1
Bit(x, i) == (x \div (2 ^ i)) % 2

\* concatenation of the sequences ss[i], ss[i + 1], ...
RECURSIVE FlattenFrom(_, _)
FlattenFrom(ss, i) == IF i > Len(ss) THEN <<>> ELSE ss[i] \o FlattenFrom(ss, i + 1)
Flatten(ss) == FlattenFrom(ss, 1)

\* the elements of a sequence, as a set
Elems(s) == {s[i] : i \in DOMAIN s}

-----------------------------------------------------------------------------
(* Gate programs: a gate is [op, qs, params]; qs lists the qubits it acts  *)
(* on (controls first, target last).                                       *)

Gate(op, qs, params) == [op |-> op, qs |-> qs, params |-> params]
NoParams == <<>>

\* board size of the reference case
N == 4

\* amp = 0.5 = 1 / AmpDen: amplitudes are kept as numerators over AmpDen
AmpDen == 2

\* variant of W_state with the amplitudes on the indices 1, 2, 3, 4
W_state_consecutive == [i \in 1..16 |-> IF (i - 1) \in {1, 2, 3, 4} THEN 1 ELSE 0]

\* prepare_w_row: state[1] = state[2] = state[4] = state[8] = amp, 0 elsewhere
\* (amplitudes in units of amp = 0.5)
W_state == [i \in 1..16 |-> IF (i - 1) \in {1, 2, 4, 8} THEN 1 ELSE 0]

prepare_w_row(row_qubits) == <<Gate("initialize", row_qubits, W_state)>>

prepare_all_rows(board_qubits) ==
    Flatten([rw \in 1..4 |->
        prepare_w_row(SubSeq(board_qubits, 4 * (rw - 1) + 1, 4 * (rw - 1) + 4))])

\* variant of add_column_checks whose row loop stops one row early
add_column_checks_short_rows(board_qubits, col_ancillas, n) ==
    Flatten([jj \in 1..(n - 1) |->
        LET j == jj - 1
            anc == col_ancillas[j + 1]
        IN  <<Gate("h", <<anc>>, NoParams)>>
            \o [ii \in 1..(n - 1) |->
                   Gate("cz", <<board_qubits[(ii - 1) * n + j + 1], anc>>, NoParams)]
            \o <<Gate("h", <<anc>>, NoParams)>>])

\* add_column_checks: for j in range(N-1): H(anc), CZ(board[i*N+j], anc) for
\* every row i, H(anc)
add_column_checks(board_qubits, col_ancillas, n) ==
    Flatten([jj \in 1..(n - 1) |->
        LET j == jj - 1
            anc == col_ancillas[j + 1]
        IN  <<Gate("h", <<anc>>, NoParams)>>
            \o [ii \in 1..n |->
                   Gate("cz", <<board_qubits[(ii - 1) * n + j + 1], anc>>, NoParams)]
            \o <<Gate("h", <<anc>>, NoParams)>>])

\* the loop nest r1, c1, r2, c2 of diagonal_pairs_for_4x4, in its order
LoopNest4 == [t \in 1..256 |->
    << (t - 1) \div 64, ((t - 1) \div 16) % 4, ((t - 1) \div 4) % 4, (t - 1) % 4 >>]

\* variant of IsDiagonalPair without the absolute values (one direction only)
IsDiagonalPair_one_direction(q) ==
    /\ q[3] >= q[1] + 1
    /\ q[1] - q[3] = q[2] - q[4]

IsDiagonalPair(q) ==
    /\ q[3] >= q[1] + 1                          \* r2 in range(r1 + 1, N)
    /\ Abs(q[1] - q[3]) = Abs(q[2] - q[4])       \* abs(r1-r2) == abs(c1-c2)

\* diagonal_pairs_for_4x4: pairs (i, j) of cell indices row * 4 + col
diagonal_pairs_for_4x4 ==
    LET sel == SelectSeq(LoopNest4, IsDiagonalPair)
    IN  [k \in 1..Len(sel) |-> << sel[k][1] * 4 + sel[k][2], sel[k][3] * 4 + sel[k][4] >>]

DIAG_PAIRS == diagonal_pairs_for_4x4

\* row_pairs of add_diagonal_checks: (r1, r2), r1 < r2, in loop order
RowPairLoop(n) == [t \in 1..(n * n) |-> << (t - 1) \div n, (t - 1) % n >>]
IsRowPair(p) == p[2] >= p[1] + 1
row_pairs(n) == SelectSeq(RowPairLoop(n), IsRowPair)

\* rowpair_to_anc = dict(zip(row_pairs, diag_ancillas)), looked up at key
rowpair_to_anc(diag_ancillas, n, key) ==
    diag_ancillas[CHOOSE k \in 1..Len(row_pairs(n)) : row_pairs(n)[k] = key]

Min(a, b) == IF a < b THEN a ELSE b
Max(a, b) == IF a < b THEN b ELSE a

\* the Toffoli emitted for the diagonal pair (i, j)
diagonal_toffoli(board_qubits, diag_ancillas, n, pr) ==
    LET r1 == pr[1] \div n
        r2 == pr[2] \div n
        key == << Min(r1, r2), Max(r1, r2) >>
        anc == rowpair_to_anc(diag_ancillas, n, key)
    IN  Gate("ccx", << board_qubits[pr[1] + 1], board_qubits[pr[2] + 1], anc >>, NoParams)

\* add_diagonal_checks: X on every diagonal ancilla, then one Toffoli per
\* diagonal pair onto the ancilla of its row pair
add_diagonal_checks(board_qubits, diag_ancillas, n) ==
    [k \in 1..Len(diag_ancillas) |-> Gate("x", <<diag_ancillas[k]>>, NoParams)]
    \o [k \in 1..Len(DIAG_PAIRS) |->
           diagonal_toffoli(board_qubits, diag_ancillas, n, DIAG_PAIRS[k])]

\* build_direct_csp_circuit: registers and global qubit indices
num_board == N * N
num_col_anc == N - 1
num_diag_anc == (N * (N - 1)) \div 2
board_qubits_direct == Range(0, num_board)
col_ancillas_direct == Range(num_board, num_board + num_col_anc)
diag_ancillas_direct == Range(num_board + num_col_anc,
                              num_board + num_col_anc + num_diag_anc)

\* qc.measure(qr_board[:] + qr_col[:] + qr_diag[:], cr[:]): k-th qubit of the
\* list into k-th classical bit
direct_csp_measure ==
    LET qs == board_qubits_direct \o col_ancillas_direct \o diag_ancillas_direct
    IN  Gate("measure", qs, Range(0, Len(qs)))

direct_csp_gates ==
    prepare_all_rows(board_qubits_direct)
    \o add_column_checks(board_qubits_direct, col_ancillas_direct, N)
    \o add_diagonal_checks(board_qubits_direct, diag_ancillas_direct, N)
    \o <<direct_csp_measure>>

-----------------------------------------------------------------------------
(* One shot of a gate program on the backend.  A qubit is tracked as one   *)
(* of |0>, |1>, |+>, |->; "?" marks a qubit the gates left entangled.      *)
(* Board qubits only ever act as controls after their initialisation, so   *)
(* a shot is one basis state of each initialised block run through the     *)
(* gates.                                                                  *)

QubitStates == {"0", "1", "+", "-", "?"}

Hadamard(s) == CASE s = "0" -> "+" [] s = "1" -> "-" [] s = "+" -> "0"
                 [] s = "-" -> "1" [] OTHER -> "?"
PauliX(s) == CASE s = "0" -> "1" [] s = "1" -> "0" [] OTHER -> s
PauliZ(s) == CASE s = "+" -> "-" [] s = "-" -> "+" [] OTHER -> s

ControlledZ(st, c, t) ==
    CASE st[c] = "1" -> [st EXCEPT ![t] = PauliZ(@)]
      [] st[c] = "0" -> st
      [] st[t] = "1" -> [st EXCEPT ![c] = PauliZ(@)]
      [] st[t] = "0" -> st
      [] OTHER -> [st EXCEPT ![c] = "?", ![t] = "?"]

Toffoli(st, c1, c2, t) ==
    CASE st[c1] = "0" \/ st[c2] = "0" -> st
      [] st[c1] = "1" /\ st[c2] = "1" -> [st EXCEPT ![t] = PauliX(@)]
      [] OTHER -> [st EXCEPT ![t] = "?"]

\* CustomInitialize: the block collapses to basis index idx of the supplied
\* vector; bit k of idx is the value of the k-th listed qubit
CustomInitialize(st, qs, idx) ==
    [q \in DOMAIN st |->
        IF \E k \in 1..Len(qs) : qs[k] = q
        THEN LET pos == CHOOSE k \in 1..Len(qs) : qs[k] = q
             IN  IF Bit(idx, pos - 1) = 1 THEN "1" ELSE "0"
        ELSE st[q]]

ApplyGate(st, g, choice) ==
    CASE g.op = "h" -> [st EXCEPT ![g.qs[1]] = Hadamard(@)]
      [] g.op = "x" -> [st EXCEPT ![g.qs[1]] = PauliX(@)]
      [] g.op = "cz" -> ControlledZ(st, g.qs[1], g.qs[2])
      [] g.op = "ccx" -> Toffoli(st, g.qs[1], g.qs[2], g.qs[3])
      [] g.op = "initialize" -> CustomInitialize(st, g.qs, choice[g.qs[1]])
      [] OTHER -> st

\* the gates of prog from position i on, applied in program order (the
\* domain test makes each intermediate state a computed value)
RECURSIVE RunGates(_, _, _, _)
RunGates(st, prog, i, choice) ==
    IF i > Len(prog) THEN st
    ELSE LET nxt == ApplyGate(st, prog[i], choice)
         IN  IF nxt \in [DOMAIN st -> QubitStates]
             THEN RunGates(nxt, prog, i + 1, choice)
             ELSE st

\* first qubits of the initialised blocks of a program
InitBlocks(prog) == {prog[i].qs[1] : i \in {k \in DOMAIN prog : prog[k].op = "initialize"}}

\* basis indices of non-zero amplitude of the vector initialising block b
Support(prog, b) ==
    LET g == prog[CHOOSE i \in DOMAIN prog : prog[i].op = "initialize" /\ prog[i].qs[1] = b]
    IN  {idx \in 0..(Len(g.params) - 1) : g.params[idx + 1] # 0}

\* qubits whose measurement is not determined
Undetermined(st) == {q \in DOMAIN st : st[q] \notin {"0", "1"}}

\* value read from qubit q; coin decides the undetermined ones
Measured(st, coin, q) == IF st[q] = "1" THEN 1 ELSE IF st[q] = "0" THEN 0 ELSE coin[q]

\* <<qubit, clbit>> pairs of the measure instruction of a program
MeasureMap(prog) ==
    LET g == prog[CHOOSE i \in DOMAIN prog : prog[i].op = "measure"]
    IN  [k \in 1..Len(g.qs) |-> << g.qs[k], g.params[k] >>]

\* the counts key: classical bit n-1 leftmost, classical bit 0 rightmost; a
\* classical bit nothing is measured into reads 0
FormatBitstring(st, coin, mmap, n) ==
    [p \in 1..n |->
        LET c == n - p
            src == {j \in DOMAIN mmap : mmap[j][2] = c}
        IN  IF src # {} /\ Measured(st, coin, mmap[CHOOSE j \in src : TRUE][1]) = 1
            THEN "1" ELSE "0"]

\* a register separator after the first sp characters (none when sp > Len)
WithSpace(s, sp) ==
    IF sp > Len(s) THEN s
    ELSE SubSeq(s, 1, sp) \o <<" ">> \o SubSeq(s, sp + 1, Len(s))


-----------------------------------------------------------------------------
(* direct_csp/analysis.py *)

\* int(b) of a character '0' / '1'
IntOf(c) == IF c = "1" THEN 1 ELSE 0

IsNotSpace(c) == c # " "

\* variant of split_bitstring that reads the board bits first
split_bitstring_board_first(bs, board_size, num_cols, num_diag) ==
    LET clean == SelectSeq(bs, IsNotSpace)
        b == SubSeq(clean, 1, board_size)
        c == SubSeq(clean, board_size + 1, board_size + num_cols)
        d == SubSeq(clean, board_size + num_cols + 1, Len(clean))
    IN  IF Len(clean) # board_size + num_cols + num_diag \/ Len(b) # board_size
        THEN [err |-> "ValueError", board_bits |-> <<>>, col_bits |-> <<>>,
              diag_bits |-> <<>>]
        ELSE [err |-> "none",
              board_bits |-> [k \in 1..Len(b) |-> IntOf(b[k])],
              col_bits |-> [k \in 1..Len(c) |-> IntOf(c[k])],
              diag_bits |-> [k \in 1..Len(d) |-> IntOf(d[k])]]

\* split_bitstring: clean = bitstring.replace(" ", ""); the first num_diag
\* characters are diag_bits, the next num_cols col_bits, the rest board_bits
split_bitstring(bs, board_size, num_cols, num_diag) ==
    LET clean == SelectSeq(bs, IsNotSpace)
        d == SubSeq(clean, 1, num_diag)
        c == SubSeq(clean, num_diag + 1, num_diag + num_cols)
        b == SubSeq(clean, num_diag + num_cols + 1, Len(clean))
    IN  IF Len(clean) # board_size + num_cols + num_diag \/ Len(b) # board_size
        THEN [err |-> "ValueError", board_bits |-> <<>>, col_bits |-> <<>>,
              diag_bits |-> <<>>]
        ELSE [err |-> "none",
              board_bits |-> [k \in 1..Len(b) |-> IntOf(b[k])],
              col_bits |-> [k \in 1..Len(c) |-> IntOf(c[k])],
              diag_bits |-> [k \in 1..Len(d) |-> IntOf(d[k])]]

\* the filter of analyze_direct_csp
is_valid_entry(cb, db) ==
    /\ \A k \in DOMAIN cb : cb[k] = 1
    /\ \A k \in DOMAIN db : db[k] = 1

\* print_board: line r shows board_bits[r * N : (r + 1) * N], "Q" for a 1 and
\* "." otherwise
print_board(bb, n) ==
    IF Len(bb) # n * n THEN <<>>
    ELSE [r \in 1..n |-> [c \in 1..n |-> IF bb[(r - 1) * n + c] = 1 THEN "Q" ELSE "."]]

\* sum(h.values()) of a histogram h, from entry i on
RECURSIVE SumCounts(_, _)
SumCounts(h, i) == IF i > Len(h) THEN 0 ELSE h[i].cnt + SumCounts(h, i + 1)

\* analyze_direct_csp: "for bitstring, cnt in counts.items()" from entry i on,
\* acc being valid_counts so far; the ValueError of split_bitstring is not
\* caught, so it leaves analyze_direct_csp and no valid_counts is returned
RECURSIVE filter_valid_counts(_, _, _)
filter_valid_counts(h, i, acc) ==
    IF i > Len(h)
    THEN [err |-> "none", valid_counts |-> acc]
    ELSE LET r == split_bitstring(h[i].key, 16, 3, 6)
         IN  IF r.err # "none"
             THEN [err |-> r.err, valid_counts |-> <<>>]
             ELSE filter_valid_counts(h, i + 1,
                      IF is_valid_entry(r.col_bits, r.diag_bits)
                      THEN Append(acc, h[i]) ELSE acc)

\* the counts key the circuit yields for the board with the queen of row r in
\* column rc[r + 1]
DirectKey(rc) ==
    LET choice == [b \in InitBlocks(direct_csp_gates) |-> 2 ^ rc[(b \div N) + 1]]
        n == num_board + num_col_anc + num_diag_anc
        st == RunGates([q \in 0..(n - 1) |-> "0"], direct_csp_gates, 1, choice)
    IN  FormatBitstring(st, <<>>, MeasureMap(direct_csp_gates), n)

\* keys of the histograms analysed: the two solutions, a board with a column
\* conflict, and keys of 24 and of 26 characters
WellFormedKeys == {DirectKey(<<1, 3, 0, 2>>), DirectKey(<<2, 0, 3, 1>>),
                   DirectKey(<<0, 0, 0, 1>>)}
MalformedKeys == {Tail(DirectKey(<<1, 3, 0, 2>>)), DirectKey(<<2, 0, 3, 1>>) \o <<"0">>}

-----------------------------------------------------------------------------
(* sat-grover/circuit.py: classical validator *)

\* number of boolean variables x0..x7
NumVars == 8

\* variant of decode_assignment reading the first bit of a row as the MSB
decode_assignment_msb_first(b) ==
    [rw \in 1..4 |-> 2 * b[2 * (rw - 1) + 1] + b[2 * (rw - 1) + 2]]

decode_assignment(b) ==
    [rw \in 1..4 |-> b[2 * (rw - 1) + 1] + 2 * b[2 * (rw - 1) + 2]]

is_valid_assignment(b) ==
    LET cs == decode_assignment(b)
    IN  IF Cardinality(Elems(cs)) # 4 THEN FALSE
        ELSE ~ \E i \in 0..3 : \E j \in (i + 1)..3 :
                 Abs(i - j) = Abs(cs[i + 1] - cs[j + 1])

\* bits = [(x >> i) & 1 for i in range(8)]
LsbFirst(x) == [i \in 1..NumVars |-> Bit(x, i - 1)]

generate_valid_patterns ==
    SelectSeq([x \in 1..(2 ^ NumVars) |-> LsbFirst(x - 1)], is_valid_assignment)

-----------------------------------------------------------------------------
(* sat-grover/circuit.py: the boolean formula, as a tree *)

Var(i) == <<"var", i>>
Not(e) == <<"not", e>>
Xor(a, b) == <<"xor", a, b>>
And(es) == <<"and", es>>
Or(es) == <<"or", es>>

\* row_bits(r) = (b0, b1) = (x_{2r}, x_{2r+1})
row_bits(r) == << Var(2 * r), Var(2 * r + 1) >>

\* ((b1_r1 ^ b1_r2) | (b0_r1 ^ b0_r2))
col_diff(r1, r2) ==
    Or(<< Xor(row_bits(r1)[2], row_bits(r2)[2]), Xor(row_bits(r1)[1], row_bits(r2)[1]) >>)

\* variant of col_eq_expr with the two bits of col_val exchanged
col_eq_expr_swapped(r, col_val) ==
    LET b0 == row_bits(r)[1]
        b1 == row_bits(r)[2]
        v0 == Bit(col_val, 1)
        v1 == Bit(col_val, 0)
        lit0 == IF v0 = 1 THEN b0 ELSE Not(b0)
        lit1 == IF v1 = 1 THEN b1 ELSE Not(b1)
    IN  And(<< lit1, lit0 >>)

\* (lit1 & lit0), lit_k the variable or its negation by bit k of col_val
col_eq_expr(r, col_val) ==
    LET b0 == row_bits(r)[1]
        b1 == row_bits(r)[2]
        v0 == Bit(col_val, 0)
        v1 == Bit(col_val, 1)
        lit0 == IF v0 = 1 THEN b0 ELSE Not(b0)
        lit1 == IF v1 = 1 THEN b1 ELSE Not(b1)
    IN  And(<< lit1, lit0 >>)

ColumnLoop == [t \in 1..16 |-> << (t - 1) \div 4, (t - 1) % 4 >>]

\* bad_terms of the row pair (r1, r2), in loop order of c1, c2
bad_terms(r1, r2) ==
    LET IsBad(cc) == Abs(r1 - r2) = Abs(cc[1] - cc[2])
        sel == SelectSeq(ColumnLoop, IsBad)
    IN  [k \in 1..Len(sel) |->
            And(<< col_eq_expr(r1, sel[k][1]), col_eq_expr(r2, sel[k][2]) >>)]

diag_ok(r1, r2) == Not(Or(bad_terms(r1, r2)))

NonEmpty(s) == s # <<>>

\* _nqueens4_boolean_expression: the conjunction of the column clauses and of
\* the diagonal clauses of the row pairs that have bad terms
nqueens4_boolean_expression ==
    LET rp == row_pairs(4)
        withBad == SelectSeq(rp, LAMBDA p : NonEmpty(bad_terms(p[1], p[2])))
    IN  And([k \in 1..Len(rp) |-> col_diff(rp[k][1], rp[k][2])]
            \o [k \in 1..Len(withBad) |-> diag_ok(withBad[k][1], withBad[k][2])])

\* truth value of a formula under the assignment x_i = b[i + 1]
RECURSIVE Eval(_, _)
Eval(e, b) ==
    CASE e[1] = "var" -> b[e[2] + 1] = 1
      [] e[1] = "not" -> ~ Eval(e[2], b)
      [] e[1] = "xor" -> Eval(e[2], b) # Eval(e[3], b)
      [] e[1] = "and" -> \A k \in 1..Len(e[2]) : Eval(e[2][k], b)
      [] e[1] = "or" -> \E k \in 1..Len(e[2]) : Eval(e[2][k], b)

\* build_nqueens4_oracle: |x> -> (-1)^F(x) |x>, variable x_i on data qubit i
build_nqueens4_oracle(b) == IF Eval(nqueens4_boolean_expression, b) THEN -1 ELSE 1


-----------------------------------------------------------------------------
(* sat-grover/circuit.py: Grover iterations *)

\* largest s with s * s <= v, by bisection on lo..hi
RECURSIVE ISqrtIn(_, _, _)
ISqrtIn(v, lo, hi) ==
    IF lo >= hi THEN lo
    ELSE LET mid == (lo + hi + 1) \div 2
         IN  IF mid * mid <= v THEN ISqrtIn(v, mid, hi) ELSE ISqrtIn(v, lo, mid - 1)

\* floating point values are carried as integers in units of 1 / Scale
Scale == 10 ^ 3
\* math.pi as a fraction
Pi == << 31416, 10000 >>

\* sqrt(x) for x given in units of 1 / Scale^2, result in units of 1 / Scale
Sqrt(xScaled2) == ISqrtIn(xScaled2, 0, Scale * 50)

\* int(round(v)) for v >= 0 in units of 1 / Scale
Round(vScaled) == (vScaled + Scale \div 2) \div Scale

\* variant of optimal_grover_iterations that truncates instead of rounding
optimal_grover_iterations_truncating(nq, m) ==
    LET n2 == 2 ^ nq
    IN  IF m = 0 THEN [err |-> "ZeroDivisionError", k |-> -1]
        ELSE LET ratio == (n2 * Scale * Scale) \div m
                 k_real == (Pi[1] * Sqrt(ratio)) \div (4 * Pi[2])
             IN  [err |-> "none", k |-> k_real \div Scale]

\* optimal_grover_iterations: N = 2 ** num_qubits;
\* k_real = (pi / 4.0) * sqrt(N / num_solutions); int(round(k_real)).
\* N / 0 raises ZeroDivisionError
optimal_grover_iterations(nq, m) ==
    LET n2 == 2 ^ nq
    IN  IF m = 0 THEN [err |-> "ZeroDivisionError", k |-> -1]
        ELSE LET ratio == (n2 * Scale * Scale) \div m
                 k_real == (Pi[1] * Sqrt(ratio)) \div (4 * Pi[2])
             IN  [err |-> "none", k |-> Round(k_real)]

\* stands for num_iterations = None
None == -1

\* apply_diffuser: H all, X all, H - MCX - H on the last qubit, X all, H all
apply_diffuser(data_qubits) ==
    LET n == Len(data_qubits)
        last == data_qubits[n]
        each(op) == [k \in 1..n |-> Gate(op, <<data_qubits[k]>>, NoParams)]
    IN  each("h") \o each("x")
        \o <<Gate("h", <<last>>, NoParams)>>
        \o (IF n > 1
            THEN <<Gate("mcx", SubSeq(data_qubits, 1, n - 1) \o <<last>>, NoParams)>>
            ELSE <<>>)
        \o <<Gate("h", <<last>>, NoParams)>>
        \o each("x") \o each("h")

\* Statevector of the data register: amp[x] is the amplitude of the basis
\* state whose bit q is the value of data qubit q.  H is applied without its
\* factor 1/sqrt(2), so that amplitudes stay integers.
FlipBit(x, q) == IF Bit(x, q) = 1 THEN x - 2 ^ q ELSE x + 2 ^ q

StatevectorH(amp, q) ==
    [x \in DOMAIN amp |-> IF Bit(x, q) = 0 THEN amp[x] + amp[FlipBit(x, q)]
                                           ELSE amp[FlipBit(x, q)] - amp[x]]

StatevectorX(amp, q) == [x \in DOMAIN amp |-> amp[FlipBit(x, q)]]

\* mcx(controls, target): qs holds the controls, then the target
StatevectorMCX(amp, qs) ==
    [x \in DOMAIN amp |->
        IF \A k \in 1..(Len(qs) - 1) : Bit(x, qs[k]) = 1
        THEN amp[FlipBit(x, qs[Len(qs)])] ELSE amp[x]]

StatevectorGate(amp, g) ==
    CASE g.op = "h" -> StatevectorH(amp, g.qs[1])
      [] g.op = "x" -> StatevectorX(amp, g.qs[1])
      [] g.op = "mcx" -> StatevectorMCX(amp, g.qs)
      [] OTHER -> amp

RECURSIVE StatevectorRun(_, _, _)
StatevectorRun(amp, prog, i) ==
    IF i > Len(prog) THEN amp
    ELSE LET nxt == StatevectorGate(amp, prog[i])
         IN  IF nxt \in [DOMAIN amp -> Int]
             THEN StatevectorRun(nxt, prog, i + 1) ELSE amp

\* number of H gates in a program: the power of sqrt(2) left out
HadamardCount(prog) == Cardinality({i \in DOMAIN prog : prog[i].op = "h"})

\* variant of resolve_iterations testing "not num_iterations" (0 reads as Auto)
resolve_iterations_falsy(requested, num_data) ==
    IF requested = None \/ requested = 0
    THEN optimal_grover_iterations(num_data, Len(generate_valid_patterns)).k
    ELSE requested

\* the iteration count build_sat_grover_circuit uses
resolve_iterations(requested, num_data) ==
    IF requested = None
    THEN optimal_grover_iterations(num_data, Len(generate_valid_patterns)).k
    ELSE requested

\* variant of sat_grover_gates whose diffuser runs over qubit_mapping
sat_grover_gates_diffuse_all(num_data, anc, k) ==
    LET qr_data == Range(0, num_data)
        qr_anc == Range(num_data, num_data + anc)
        qubit_mapping == qr_data \o qr_anc
    IN  [i \in 1..num_data |-> Gate("h", <<qr_data[i]>>, NoParams)]
        \o Flatten([t \in 1..k |->
               <<Gate("oracle", qubit_mapping, NoParams)>> \o apply_diffuser(qubit_mapping)])
        \o <<Gate("measure", qr_data, Range(0, num_data))>>

\* build_sat_grover_circuit: gates of the circuit for an oracle with anc
\* ancillas and k iterations
sat_grover_gates(num_data, anc, k) ==
    LET qr_data == Range(0, num_data)
        qr_anc == Range(num_data, num_data + anc)
        qubit_mapping == qr_data \o qr_anc
    IN  [i \in 1..num_data |-> Gate("h", <<qr_data[i]>>, NoParams)]
        \o Flatten([t \in 1..k |->
               <<Gate("oracle", qubit_mapping, NoParams)>> \o apply_diffuser(qr_data)])
        \o <<Gate("measure", qr_data, Range(0, num_data))>>

\* variant of bitstring_to_bits that keeps the order of the characters
bitstring_to_bits_unreversed(bs) == [i \in 1..Len(bs) |-> IntOf(bs[i])]

\* sat-grover/analysis.py: bitstring_to_bits
bitstring_to_bits(bs) == [i \in 1..Len(bs) |-> IntOf(bs[Len(bs) - i + 1])]

-----------------------------------------------------------------------------
(* Bounds of the model *)

\* largest fixed iteration count passed to build_sat_grover_circuit
MaxIter == 3
\* largest ancilla count the oracle reports
MaxAnc == 2
\* largest num_qubits / num_solutions passed to optimal_grover_iterations
MaxQubits == 8
MaxSolutions == 6

\* most entries of a histogram, and largest count of one entry
MaxEntries == 3
MaxCount == 2

\* histograms: up to MaxEntries entries with distinct keys, in dict order
Histograms ==
    LET Entries == [key : WellFormedKeys \cup MalformedKeys, cnt : 1..MaxCount]
    IN  {h \in UNION {[1..n -> Entries] : n \in 1..MaxEntries} :
            \A i, j \in DOMAIN h : i # j => h[i].key # h[j].key}

\* largest data register given to apply_diffuser
MaxDataQubits == 3

\* amplitude vectors on n qubits with one or two non-zero entries +1 / -1; the
\* gates are linear, so these determine the operator
DiffuserInputs(n) ==
    {a \in [0..(2 ^ n - 1) -> {-1, 0, 1}] :
        Cardinality({x \in DOMAIN a : a[x] # 0}) \in {1, 2}}

-----------------------------------------------------------------------------
(* State machine *)

Init ==
    /\ pc = "start"
    /\ qc = <<>>
    /\ num_clbits = 0
    /\ num_ancillas = 0
    /\ num_iterations = None
    /\ qstate = <<>>
    /\ bitstring = <<>>
    /\ board_bits = <<>>
    /\ col_bits = <<>>
    /\ diag_bits = <<>>
    /\ in_valid_counts = FALSE
    /\ bits = <<>>
    /\ phase = 0
    /\ is_valid = FALSE
    /\ valid_patterns = <<>>
    /\ cols = <<>>
    /\ call_args = <<>>
    /\ k_result = -1
    /\ error = "none"
    /\ counts = <<>>
    /\ valid_counts = <<>>
    /\ valid_shots = 0
    /\ amp_in = <<>>
    /\ amp_out = <<>>

\* build_direct_csp_circuit()
BuildDirect ==
    /\ pc = "start"
    /\ pc' = "direct_built"
    /\ qc' = direct_csp_gates
    /\ num_clbits' = num_board + num_col_anc + num_diag_anc
    /\ UNCHANGED <<num_ancillas, num_iterations, qstate, bitstring, board_bits,
                   col_bits, diag_bits, in_valid_counts, bits, phase, is_valid,
                   valid_patterns, cols, call_args, k_result, error>>
    /\ UNCHANGED <<batch_vars, diffuser_vars>>

\* backend.run(...).result().get_counts(): one shot and its counts key
RunDirect ==
    /\ pc = "direct_built"
    /\ \E choice \in [InitBlocks(qc) -> 0..15] :
        /\ \A b \in InitBlocks(qc) : choice[b] \in Support(qc, b)
        /\ LET st == RunGates([q \in 0..(num_clbits - 1) |-> "0"], qc, 1, choice)
           IN  \E coin \in [Undetermined(st) -> {0, 1}] :
               LET key == FormatBitstring(st, coin, MeasureMap(qc), num_clbits)
               IN  \E sp \in 0..(num_clbits + 1) :
                       /\ qstate' = st
                       /\ bitstring' = WithSpace(key, sp)
    /\ pc' = "direct_ran"
    /\ UNCHANGED <<qc, num_clbits, num_ancillas, num_iterations,
                   board_bits, col_bits, diag_bits, in_valid_counts, bits, phase,
                   is_valid, valid_patterns, cols, call_args, k_result, error>>
    /\ UNCHANGED <<batch_vars, diffuser_vars>>

\* analyze_direct_csp: the filter loop body on one entry of counts
AnalyzeDirect ==
    /\ pc = "direct_ran"
    /\ LET r == split_bitstring(bitstring, 16, 3, 6)
       IN  IF r.err # "none"
           THEN /\ error' = r.err
                /\ pc' = "direct_failed"
                /\ UNCHANGED <<board_bits, col_bits, diag_bits, in_valid_counts>>
           ELSE /\ board_bits' = r.board_bits
                /\ col_bits' = r.col_bits
                /\ diag_bits' = r.diag_bits
                /\ in_valid_counts' = is_valid_entry(r.col_bits, r.diag_bits)
                /\ pc' = "direct_done"
                /\ UNCHANGED error
    /\ UNCHANGED <<qc, num_clbits, num_ancillas, num_iterations,
                   qstate, bitstring, bits, phase, is_valid, valid_patterns, cols,
                   call_args, k_result>>
    /\ UNCHANGED <<batch_vars, diffuser_vars>>

\* the oracle of build_nqueens4_oracle applied to the basis state |x>
ApplyOracle ==
    /\ pc = "start"
    /\ \E x \in 0..(2 ^ NumVars - 1) :
        /\ bits' = LsbFirst(x)
        /\ phase' = build_nqueens4_oracle(LsbFirst(x))
    /\ pc' = "oracle_applied"
    /\ UNCHANGED <<qc, num_clbits, num_ancillas, num_iterations,
                   qstate, bitstring, board_bits, col_bits, diag_bits,
                   in_valid_counts, is_valid, valid_patterns, cols, call_args,
                   k_result, error>>
    /\ UNCHANGED <<batch_vars, diffuser_vars>>

\* analyze_sat_grover: one entry of counts decoded and validated
AnalyzeSat ==
    /\ pc = "start"
    /\ \E bs \in [1..NumVars -> {"0", "1"}] :
        /\ bitstring' = bs
        /\ bits' = bitstring_to_bits(bs)
        /\ cols' = decode_assignment(bitstring_to_bits(bs))
        /\ is_valid' = is_valid_assignment(bitstring_to_bits(bs))
    /\ pc' = "sat_analysed"
    /\ UNCHANGED <<qc, num_clbits, num_ancillas, num_iterations,
                   qstate, board_bits, col_bits, diag_bits, in_valid_counts,
                   phase, valid_patterns, call_args, k_result, error>>
    /\ UNCHANGED <<batch_vars, diffuser_vars>>

\* generate_valid_patterns()
GenerateValidPatterns ==
    /\ pc = "start"
    /\ valid_patterns' = generate_valid_patterns
    /\ pc' = "patterns_done"
    /\ UNCHANGED <<qc, num_clbits, num_ancillas, num_iterations,
                   qstate, bitstring, board_bits, col_bits, diag_bits,
                   in_valid_counts, bits, phase, is_valid, cols, call_args,
                   k_result, error>>
    /\ UNCHANGED <<batch_vars, diffuser_vars>>

\* optimal_grover_iterations(num_qubits, num_solutions)
CallOptimal ==
    /\ pc = "start"
    /\ \E nq \in 1..MaxQubits : \E m \in 0..MaxSolutions :
        LET r == optimal_grover_iterations(nq, m)
        IN  /\ call_args' = << nq, m >>
            /\ k_result' = r.k
            /\ error' = r.err
    /\ pc' = "iterations_done"
    /\ UNCHANGED <<qc, num_clbits, num_ancillas, num_iterations,
                   qstate, bitstring, board_bits, col_bits, diag_bits,
                   in_valid_counts, bits, phase, is_valid, valid_patterns, cols>>
    /\ UNCHANGED <<batch_vars, diffuser_vars>>

\* build_sat_grover_circuit(num_iterations) with an oracle of anc ancillas
BuildSatGrover ==
    /\ pc = "start"
    /\ \E requested \in {None} \cup 0..MaxIter : \E anc \in 0..MaxAnc :
        LET k == resolve_iterations(requested, NumVars)
        IN  /\ call_args' = << requested >>
            /\ num_ancillas' = anc
            /\ num_iterations' = k
            /\ qc' = sat_grover_gates(NumVars, anc, k)
            /\ num_clbits' = NumVars
    /\ pc' = "sat_built"
    /\ UNCHANGED <<qstate, bitstring, board_bits, col_bits, diag_bits,
                   in_valid_counts, bits, phase, is_valid, valid_patterns, cols,
                   k_result, error>>
    /\ UNCHANGED <<batch_vars, diffuser_vars>>

\* analyze_direct_csp from counts on: the filter loop over the whole
\* histogram, then total_shots / valid_shots
AnalyzeHistogram ==
    /\ pc = "start"
    /\ \E h \in Histograms :
        LET r == filter_valid_counts(h, 1, <<>>)
        IN  /\ counts' = h
            /\ error' = r.err
            /\ valid_counts' = r.valid_counts
            /\ valid_shots' = IF r.err = "none" THEN SumCounts(r.valid_counts, 1) ELSE 0
            /\ pc' = IF r.err = "none" THEN "histogram_done" ELSE "histogram_failed"
    /\ UNCHANGED <<qc, num_clbits, num_ancillas, num_iterations, qstate,
                   bitstring, board_bits, col_bits, diag_bits, in_valid_counts,
                   bits, phase, is_valid, valid_patterns, cols, call_args,
                   k_result>>
    /\ UNCHANGED diffuser_vars

\* apply_diffuser(qc, data_qubits) on a register of n data qubits
ApplyDiffuser ==
    /\ pc = "start"
    /\ \E n \in 1..MaxDataQubits : \E a \in DiffuserInputs(n) :
        /\ qc' = apply_diffuser(Range(0, n))
        /\ amp_in' = a
        /\ amp_out' = StatevectorRun(a, apply_diffuser(Range(0, n)), 1)
    /\ pc' = "diffused"
    /\ UNCHANGED <<num_clbits, num_ancillas, num_iterations, qstate,
                   bitstring, board_bits, col_bits, diag_bits, in_valid_counts,
                   bits, phase, is_valid, valid_patterns, cols, call_args,
                   k_result, error>>
    /\ UNCHANGED batch_vars

Next ==
    \/ BuildDirect
    \/ RunDirect
    \/ AnalyzeDirect
    \/ ApplyOracle
    \/ AnalyzeSat
    \/ GenerateValidPatterns
    \/ CallOptimal
    \/ BuildSatGrover
    \/ AnalyzeHistogram
    \/ ApplyDiffuser

Spec == Init /\ [][Next]_vars


-----------------------------------------------------------------------------
(* Properties of the direct encoding *)

ShotTaken == pc \in {"direct_ran", "direct_done"}

\* queens of the measured board: cell (r, c) is board qubit 4r + c
QueenAt(r, c) == qstate[N * r + c] = "1"
QueensInColumn(j) == Cardinality({r \in 0..(N - 1) : QueenAt(r, j)})
QueenColumn(r) == CHOOSE c \in 0..(N - 1) : QueenAt(r, c)
RowToColumn == [rw \in 1..N |-> QueenColumn(rw - 1)]
OneQueenPerRow ==
    \A r \in 0..(N - 1) : Cardinality({c \in 0..(N - 1) : QueenAt(r, c)}) = 1

\* brute-force 4-Queens check of a row -> column assignment rc (rc[r + 1])
IsQueensSolution(rc) ==
    /\ \A i \in 1..N : \A j \in 1..N : i # j => rc[i] # rc[j]
    /\ \A i \in 1..N : \A j \in 1..N : i < j => j - i # Abs(rc[i] - rc[j])

TwoSolutions == { <<1, 3, 0, 2>>, <<2, 0, 3, 1>> }

\* C1: for every one-hot-per-row board, the entry passes the filter of
\* analyze_direct_csp (all column and all diagonal ancilla bits 1) iff the
\* board is a 4-Queens solution, and exactly the boards [1,3,0,2] and
\* [2,0,3,1] pass
C1_ValidityIffSolution ==
    pc = "direct_done" =>
        /\ OneQueenPerRow
        /\ in_valid_counts <=> IsQueensSolution(RowToColumn)
        /\ in_valid_counts <=> RowToColumn \in TwoSolutions

C1_Witness ==
    /\ pc = "direct_done"
    /\ in_valid_counts
    /\ RowToColumn = <<1, 3, 0, 2>>

\* C2 (as claimed): after a shot every column ancilla j in 0..2 is 1 iff
\* column j holds exactly one queen, and 0 otherwise
C2_ColumnAncillaExactlyOne ==
    ShotTaken =>
        \A j \in 0..(N - 2) :
            /\ qstate[col_ancillas_direct[j + 1]] \in {"0", "1"}
            /\ qstate[col_ancillas_direct[j + 1]] = "1" <=> QueensInColumn(j) = 1

\* row pairs in lexicographic order
LexRowPairs == << <<0, 1>>, <<0, 2>>, <<0, 3>>, <<1, 2>>, <<1, 3>>, <<2, 3>> >>

Toffolis == {i \in DOMAIN qc : qc[i].op = "ccx"}
BothControlsSet(i) == qstate[qc[i].qs[1]] = "1" /\ qstate[qc[i].qs[2]] = "1"

\* C3: for every row pair (r1, r2), the p-th in lexicographic order, the
\* Toffolis on the rows r1 and r2 are exactly those targeting
\* diag_ancillas[p], at most one of them has both controls occupied, and the
\* ancilla ends at 0 iff the two queens share a diagonal, at 1 otherwise
C3_DiagonalAncilla ==
    ShotTaken =>
        \A p \in 1..Len(LexRowPairs) :
            LET r1 == LexRowPairs[p][1]
                r2 == LexRowPairs[p][2]
                anc == diag_ancillas_direct[p]
                onAnc == {i \in Toffolis : qc[i].qs[3] = anc}
            IN  /\ \A i \in Toffolis :
                       i \in onAnc <=>
                           {qc[i].qs[1] \div N, qc[i].qs[2] \div N} = {r1, r2}
                /\ onAnc # {}
                /\ Cardinality({i \in onAnc : BothControlsSet(i)}) <= 1
                /\ qstate[anc] =
                       (IF r2 - r1 = Abs(QueenColumn(r1) - QueenColumn(r2))
                        THEN "0" ELSE "1")

C3_Witness ==
    /\ pc = "direct_ran"
    /\ qstate[diag_ancillas_direct[1]] = "0"
    /\ qstate[diag_ancillas_direct[6]] = "1"
    /\ QueenColumn(0) = 2 /\ QueenColumn(1) = 1

\* qubit whose measurement is character p (1-based) of the counts key
CharQubit(p) ==
    LET mm == MeasureMap(qc)
    IN  mm[CHOOSE j \in DOMAIN mm : mm[j][2] = num_clbits - p][1]
BitOf(q) == IF qstate[q] = "1" THEN 1 ELSE 0

\* C10: qubit i is measured into classical bit i, the counts key has
\* classical bit 24 leftmost, and split_bitstring returns as diag_bits the
\* measurements of the 6 diagonal ancillas (characters 0..5), as col_bits
\* those of the 3 column ancillas (characters 6..8) and as board_bits those
\* of the 16 board qubits (characters 9..24), with or without a space
C10_SubRegisterLayout ==
    /\ pc # "direct_failed"
    /\ pc \in {"direct_built", "direct_ran", "direct_done"} =>
           MeasureMap(qc) = [k \in 1..(num_board + num_col_anc + num_diag_anc) |->
                                << k - 1, k - 1 >>]
    /\ pc = "direct_done" =>
        /\ Len(diag_bits) = num_diag_anc
        /\ Len(col_bits) = num_col_anc
        /\ Len(board_bits) = num_board
        /\ \A k \in 1..num_diag_anc :
               /\ CharQubit(k) \in Elems(diag_ancillas_direct)
               /\ diag_bits[k] = BitOf(CharQubit(k))
        /\ \A k \in 1..num_col_anc :
               /\ CharQubit(num_diag_anc + k) \in Elems(col_ancillas_direct)
               /\ col_bits[k] = BitOf(CharQubit(num_diag_anc + k))
        /\ \A k \in 1..num_board :
               /\ CharQubit(num_diag_anc + num_col_anc + k) \in Elems(board_qubits_direct)
               /\ board_bits[k] = BitOf(CharQubit(num_diag_anc + num_col_anc + k))

C10_Witness ==
    /\ pc = "direct_done"
    /\ " " \in Elems(bitstring)
    /\ {0, 1} \subseteq Elems(diag_bits)
    /\ {0, 1} \subseteq Elems(col_bits)


-----------------------------------------------------------------------------
(* Properties of the SAT encoding *)

\* C4: for every assignment of x0..x7 the oracle applies phase -1 iff
\* is_valid_assignment accepts bits[i] = x_i, and phase +1 otherwise
C4_OracleMarksValid ==
    pc = "oracle_applied" =>
        /\ phase \in {-1, 1}
        /\ phase = -1 <=> is_valid_assignment(bits)

C4_Witness ==
    /\ pc = "oracle_applied"
    /\ phase = -1
    /\ bits = <<1, 0, 1, 1, 0, 0, 0, 1>>

\* brute-force reference on col_r = bits[2r] + 2 * bits[2r + 1]
ReferenceColumn(b, r) == b[2 * r + 1] + 2 * b[2 * r + 2]
ReferenceValid(b) ==
    /\ \A i \in 0..3 : \A j \in 0..3 :
           i # j => ReferenceColumn(b, i) # ReferenceColumn(b, j)
    /\ \A i \in 0..3 : \A j \in 0..3 :
           i < j => j - i # Abs(ReferenceColumn(b, i) - ReferenceColumn(b, j))

\* C5: is_valid_assignment agrees with the brute-force reference on every
\* 8-bit assignment, and generate_valid_patterns returns exactly the 2
\* assignments decoding to [1,3,0,2] and [2,0,3,1]
C5_ValidatorMatchesReference ==
    /\ pc = "sat_analysed" =>
        /\ is_valid <=> ReferenceValid(bits)
        /\ cols = [rw \in 1..4 |-> ReferenceColumn(bits, rw - 1)]
    /\ pc = "patterns_done" =>
        /\ Len(valid_patterns) = 2
        /\ {[rw \in 1..4 |-> ReferenceColumn(valid_patterns[k], rw - 1)] :
               k \in DOMAIN valid_patterns} = TwoSolutions

C5_Witness ==
    /\ pc = "sat_analysed"
    /\ is_valid
    /\ cols = <<2, 0, 3, 1>>

\* gates of one diffuser over 8 data qubits: 8 H, 8 X, H, MCX, H, 8 X, 8 H
DiffuserOps ==
    [i \in 1..NumVars |-> "h"] \o [i \in 1..NumVars |-> "x"]
    \o <<"h", "mcx", "h">>
    \o [i \in 1..NumVars |-> "x"] \o [i \in 1..NumVars |-> "h"]
IterLen == 1 + Len(DiffuserOps)

\* the iteration count asked for: Fixed(k) or Auto
Requested == call_args[1]

\* C6: the program is H on the 8 data qubits, then exactly k times (oracle
\* over data + ancilla qubits, then the diffuser), then the measurement;
\* k is the fixed count when one is given (0 included) and 9 for Auto
C6_GroverProgram ==
    pc = "sat_built" =>
        LET k == IF Requested = None THEN 9 ELSE Requested
        IN  /\ num_iterations = k
            /\ Len(qc) = NumVars + k * IterLen + 1
            /\ \A i \in 1..NumVars : qc[i].op = "h" /\ qc[i].qs = <<i - 1>>
            /\ \A t \in 0..(k - 1) :
                   LET base == NumVars + t * IterLen
                   IN  /\ qc[base + 1].op = "oracle"
                       /\ qc[base + 1].qs = Range(0, NumVars + num_ancillas)
                       /\ \A d \in 1..Len(DiffuserOps) :
                              qc[base + 1 + d].op = DiffuserOps[d]
            /\ Cardinality({i \in DOMAIN qc : qc[i].op = "oracle"}) = k
            /\ qc[Len(qc)].op = "measure"
            /\ Cardinality({i \in DOMAIN qc : qc[i].op = "measure"}) = 1

C6_Witness ==
    /\ pc = "sat_built"
    /\ Requested = 0
    /\ Len(qc) = NumVars + 1

\* C7: for num_solutions >= 1 the result k is the integer nearest to
\* (pi/4) * sqrt(2^num_qubits / num_solutions), i.e.
\* (2k - 1)^2 <= pi^2 * N / (4M) <= (2k + 1)^2 with 9.8696 < pi^2 < 9.8697,
\* and it is 9 for num_qubits = 8, num_solutions = 2
C7_IterationFormula ==
    (pc = "iterations_done" /\ call_args[2] >= 1) =>
        LET n2 == 2 ^ call_args[1]
            m == call_args[2]
            k == k_result
        IN  /\ error = "none"
            /\ k >= 0
            /\ k >= 1 => 4 * m * (2 * k - 1) * (2 * k - 1) * 10000 <= 98696 * n2
            /\ 98697 * n2 <= 4 * m * (2 * k + 1) * (2 * k + 1) * 10000
            /\ call_args = <<8, 2>> => k = 9

C7_Witness ==
    /\ pc = "iterations_done"
    /\ call_args = <<8, 2>>
    /\ k_result = 9

\* C8 (as claimed): num_solutions = 0 is rejected with IterationDomainError
C8_ZeroSolutionsDomainError ==
    (pc = "iterations_done" /\ call_args[2] = 0) =>
        /\ error = "IterationDomainError"
        /\ k_result = -1

DataQubits == 0..(NumVars - 1)

\* C9: every gate other than the oracle, and the measurement, reference
\* only the 8 data qubits; the classical register has 8 bits and data qubit
\* x_i is measured into classical bit i
C9_AncillasOnlyInOracle ==
    pc = "sat_built" =>
        /\ \A i \in DOMAIN qc :
               qc[i].op # "oracle" => Elems(qc[i].qs) \subseteq DataQubits
        /\ num_clbits = NumVars
        /\ MeasureMap(qc) = [i \in 1..NumVars |-> << i - 1, i - 1 >>]

C9_Witness ==
    /\ pc = "sat_built"
    /\ num_ancillas > 0
    /\ num_iterations > 0
    /\ \E i \in DOMAIN qc : qc[i].op = "oracle" /\ NumVars \in Elems(qc[i].qs)


-----------------------------------------------------------------------------
\* an entry split_bitstring accepts and the filter keeps
WellFormedValid(e) ==
    LET r == split_bitstring(e.key, 16, 3, 6)
    IN  r.err = "none" /\ is_valid_entry(r.col_bits, r.diag_bits)

WellFormed(e) == split_bitstring(e.key, 16, 3, 6).err = "none"

\* C11: analysing a histogram that holds an entry whose key is not 25
\* characters long (spaces removed) does not abort: the analysis completes
\* and yields the valid counts and valid shots of all well-formed entries.
C11_MalformedEntryKeepsStatistics ==
    (pc \in {"histogram_done", "histogram_failed"}
        /\ \E i \in DOMAIN counts : ~WellFormed(counts[i]))
    => /\ pc = "histogram_done"
       /\ valid_counts = SelectSeq(counts, WellFormedValid)
       /\ valid_shots = SumCounts(SelectSeq(counts, WellFormedValid), 1)

\* a histogram without malformed entry yields the statistics of its entries
HistogramWithoutMalformedEntry ==
    (pc \in {"histogram_done", "histogram_failed"}
        /\ \A i \in DOMAIN counts : WellFormed(counts[i]))
    => /\ pc = "histogram_done"
       /\ valid_counts = SelectSeq(counts, WellFormedValid)
       /\ valid_shots = SumCounts(valid_counts, 1)

-----------------------------------------------------------------------------
\* size of the register apply_diffuser ran on
DiffusedQubits == Cardinality({i \in DOMAIN qc : qc[i].op = "x"}) \div 2

\* sum of the amplitudes
RECURSIVE SumAmp(_, _)
SumAmp(a, x) == IF x \notin DOMAIN a THEN 0 ELSE a[x] + SumAmp(a, x + 1)

\* amp_out = g * D(amp_in) with D(a)[x] = 2 * mean(a) - a[x]; both sides are
\* multiplied by 2 ^ (h / 2), h being the number of H gates run
IsInversionAboutMean(g) ==
    LET n == DiffusedQubits
        scale == 2 ^ (HadamardCount(qc) \div 2)
    IN  \A x \in DOMAIN amp_in :
            (2 ^ n) * amp_out[x]
                = g * scale * (2 * SumAmp(amp_in, 0) - (2 ^ n) * amp_in[x])

\* C12: for every register of n >= 1 data qubits the gates of apply_diffuser
\* map every amplitude a_x to 2 * mean(a) - a_x, up to a global phase.
C12_DiffuserIsInversionAboutMean ==
    pc = "diffused" => IsInversionAboutMean(1) \/ IsInversionAboutMean(-1)

\* on two or more data qubits the gates act as -(2|s><s| - I)
DiffuserOnTwoOrMore ==
    (pc = "diffused" /\ DiffusedQubits >= 2) => IsInversionAboutMean(-1)

\* on one data qubit no mcx is emitted and the gates act as the identity
DiffuserOnOne ==
    (pc = "diffused" /\ DiffusedQubits = 1)
    => /\ \A i \in DOMAIN qc : qc[i].op # "mcx"
       /\ \A x \in DOMAIN amp_in : amp_out[x] = 4 * amp_in[x]

-----------------------------------------------------------------------------
\* the initialize gates of the program, in program order
InitializeGates == SelectSeq(qc, LAMBDA g : g.op = "initialize")

\* sum of the squares of a vector of numerators
RECURSIVE SumSquares(_, _)
SumSquares(v, i) == IF i > Len(v) THEN 0 ELSE v[i] * v[i] + SumSquares(v, i + 1)

\* basis index of row r of the measured board: bit c is board qubit 4r + c
RowIndex(r) ==
    (IF QueenAt(r, 0) THEN 1 ELSE 0) + (IF QueenAt(r, 1) THEN 2 ELSE 0)
    + (IF QueenAt(r, 2) THEN 4 ELSE 0) + (IF QueenAt(r, 3) THEN 8 ELSE 0)

\* numerator of the amplitude of the measured board, over AmpDen ^ 4
RECURSIVE BoardAmplitude(_)
BoardAmplitude(r) ==
    IF r = N THEN 1
    ELSE InitializeGates[r + 1].params[RowIndex(r) + 1] * BoardAmplitude(r + 1)

\* boards of non-zero amplitude: one supported basis index per row block
SupportedBoards ==
    {ch \in [InitBlocks(qc) -> 0..15] : \A b \in InitBlocks(qc) : ch[b] \in Support(qc, b)}

\* C13: prepare_all_rows initialises row r (qubits 4r..4r+3) with amplitude
\* 0.5 on exactly the basis indices 1, 2, 4, 8 and 0 on the other twelve,
\* of squared norm 1; every board of non-zero amplitude has one queen per
\* row, and the 256 such boards all have amplitude 1/16.
C13_RowPreparation ==
    /\ pc \in {"direct_built", "direct_ran", "direct_done"} =>
        /\ Len(InitializeGates) = N
        /\ \A r \in 0..(N - 1) :
            LET g == InitializeGates[r + 1]
            IN  /\ g.qs = <<4 * r, 4 * r + 1, 4 * r + 2, 4 * r + 3>>
                /\ Len(g.params) = 16
                /\ \A idx \in 0..15 :
                        2 * g.params[idx + 1]
                            = (IF idx \in {1, 2, 4, 8} THEN AmpDen ELSE 0)
                /\ SumSquares(g.params, 1) = AmpDen * AmpDen
    /\ pc = "direct_built" => Cardinality(SupportedBoards) = 256
    /\ ShotTaken =>
        /\ OneQueenPerRow
        /\ 16 * BoardAmplitude(0) = AmpDen ^ N

C13_Witness ==
    /\ pc = "direct_ran"
    /\ RowToColumn = <<3, 3, 0, 1>>

-----------------------------------------------------------------------------
\* value of a binary numeral, most significant digit first
RECURSIVE NumeralValue(_, _)
NumeralValue(s, p) ==
    IF p > Len(s) THEN 0 ELSE IntOf(s[p]) * 2 ^ (Len(s) - p) + NumeralValue(s, p + 1)

\* the counts key of the sat-grover circuit when data qubit x_i reads b[i + 1]
SatKey(b) ==
    FormatBitstring([q \in 0..(NumVars - 1) |-> IF b[q + 1] = 1 THEN "1" ELSE "0"],
                    <<>>, MeasureMap(sat_grover_gates(NumVars, 0, 1)), NumVars)

\* C14: for every 8-character key s, bitstring_to_bits(s)[i] is the value
\* measured on x_i; for the numeral s of x in 0..255 it is (x >> i) & 1, and
\* decode_assignment gives row r the column x_{2r} + 2 * x_{2r+1}, the
\* encoding of the oracle formula (row_bits(r) = (x_{2r}, x_{2r+1})).
C14_SatBitOrder ==
    pc = "sat_analysed" =>
        LET x == NumeralValue(bitstring, 1)
        IN  /\ Len(bits) = NumVars
            /\ SatKey(bits) = bitstring
            /\ \A i \in 0..(NumVars - 1) : bits[i + 1] = Bit(x, i)
            /\ cols = decode_assignment(bits)
            /\ \A r \in 0..3 :
                    /\ cols[r + 1] = Bit(x, 2 * r) + 2 * Bit(x, 2 * r + 1)
                    /\ cols[r + 1] = bits[row_bits(r)[1][2] + 1]
                                       + 2 * bits[row_bits(r)[2][2] + 1]

C14_Witness ==
    /\ pc = "sat_analysed"
    /\ bitstring = <<"0", "1", "1", "1", "0", "0", "1", "0">>
    /\ bits = <<0, 1, 0, 0, 1, 1, 1, 0>>

-----------------------------------------------------------------------------
\* C15: for every measured outcome split_bitstring returns board_bits[k] =
\* measured value of board qubit k (k in 0..15), col_bits[j] = column ancilla
\* j and diag_bits[p] = diagonal ancilla p, so that print_board draws a queen
\* at row r, column c iff board qubit 4r + c was measured as 1.
C15_IndexLevelDecode ==
    pc = "direct_done" =>
        /\ \A k \in 0..(num_board - 1) : board_bits[k + 1] = BitOf(k)
        /\ \A j \in 0..(num_col_anc - 1) : col_bits[j + 1] = BitOf(num_board + j)
        /\ \A p \in 0..(num_diag_anc - 1) :
                diag_bits[p + 1] = BitOf(num_board + num_col_anc + p)
        /\ \A r \in 0..(N - 1) : \A c \in 0..(N - 1) :
                (print_board(board_bits, N)[r + 1][c + 1] = "Q") <=> QueenAt(r, c)

\* what split_bitstring returns: each list in the order of the key, highest
\* classical bit first, so print_board draws the board turned by 180 degrees
SplitBitstringKeyOrder ==
    pc = "direct_done" =>
        /\ \A k \in 0..(num_board - 1) : board_bits[k + 1] = BitOf(num_board - 1 - k)
        /\ \A j \in 0..(num_col_anc - 1) :
                col_bits[j + 1] = BitOf(num_board + num_col_anc - 1 - j)
        /\ \A p \in 0..(num_diag_anc - 1) :
                diag_bits[p + 1] = BitOf(num_board + num_col_anc + num_diag_anc - 1 - p)
        /\ \A r \in 0..(N - 1) : \A c \in 0..(N - 1) :
                (print_board(board_bits, N)[r + 1][c + 1] = "Q")
                    <=> QueenAt(N - 1 - r, N - 1 - c)

====
